---- MODULE Spec2Model ----
(***************************************************************************)
(* organize_photos.py: photos are moved from a source tree into            *)
(* <dest>/<year>/<year>-<month>/<timestamp>[_n].<ext>, named after the     *)
(* EXIF capture date, skipping files whose content is already there.       *)
(*                                                                         *)
(* Text (file names, date strings, console input) is a sequence of         *)
(* one-character strings, so that parsing and formatting are computed.     *)
(* A path is a sequence of names.  The filesystem is a function from the   *)
(* existing paths to their entries.  The source and destination trees are  *)
(* disjoint and nobody else touches them during a run (spec.md 4.6, 5).    *)
(***************************************************************************)
EXTENDS Integers, Sequences, FiniteSets, TLC

(***************************************************************************)
(* Characters and strings (str.lower, str.strip, str.lstrip, int).         *)
(***************************************************************************)
DigitChars == <<"0", "1", "2", "3", "4", "5", "6", "7", "8", "9">>
UpperChars == <<"A", "B", "C", "D", "E", "F", "G", "H", "I", "J", "K", "L", "M", "N", "O", "P", "Q", "R", "S", "T", "U", "V", "W", "X", "Y", "Z">>
LowerChars == <<"a", "b", "c", "d", "e", "f", "g", "h", "i", "j", "k", "l", "m", "n", "o", "p", "q", "r", "s", "t", "u", "v", "w", "x", "y", "z">>

IsDigit(c) == \E i \in 1..10 : DigitChars[i] = c
DigitVal(c) == (CHOOSE i \in 1..10 : DigitChars[i] = c) - 1
IsSpace(c) == c \in {" ", "\t", "\n", "\r"}

lower_char(c) ==
    IF \E i \in 1..26 : UpperChars[i] = c
    THEN LowerChars[CHOOSE i \in 1..26 : UpperChars[i] = c]
    ELSE c

lower(s) == [i \in 1..Len(s) |-> lower_char(s[i])]

strip(s) ==
    LET keep == {i \in 1..Len(s) : ~IsSpace(s[i])}
    IN IF keep = {} THEN <<>>
       ELSE SubSeq(s, CHOOSE i \in keep : \A j \in keep : i <= j,
                      CHOOSE i \in keep : \A j \in keep : j <= i)

lstrip_dot(s) ==
    LET keep == {i \in 1..Len(s) : s[i] # "."}
    IN IF keep = {} THEN <<>>
       ELSE SubSeq(s, CHOOSE i \in keep : \A j \in keep : i <= j, Len(s))

endswith(s, t) ==
    /\ Len(t) <= Len(s)
    /\ SubSeq(s, Len(s) - Len(t) + 1, Len(s)) = t

RECURSIVE to_int(_)
to_int(s) ==
    IF Len(s) = 0 THEN 0
    ELSE 10 * to_int(SubSeq(s, 1, Len(s) - 1)) + DigitVal(s[Len(s)])

RECURSIVE to_str(_)
to_str(n) ==
    IF n < 10 THEN <<DigitChars[n + 1]>>
    ELSE to_str(n \div 10) \o <<DigitChars[(n % 10) + 1]>>

RECURSIVE zero_pad(_, _)
zero_pad(s, width) == IF Len(s) >= width THEN s ELSE zero_pad(<<"0">> \o s, width)

(***************************************************************************)
(* datetime: the calendar, strptime and strftime for the three formats     *)
(* the program uses.  A format is its sequence of directives and literal   *)
(* characters; a blank in a format matches one or more blanks.             *)
(***************************************************************************)
FMT_EXIF == <<"%Y", ":", "%m", ":", "%d", " ", "%H", ":", "%M", ":", "%S">>
FMT_TOUCH == <<"%Y", "%m", "%d", "%H", "%M", ".", "%S">>
FMT_STAMP == <<"%Y", "%m", "%d", "_", "%H", "%M", "%S">>
FMT_YEAR == <<"%Y">>
FMT_MONTH == <<"%m">>

is_leap(y) == (y % 4 = 0 /\ y % 100 # 0) \/ y % 400 = 0

days_in_month(y, m) ==
    IF m = 2 THEN (IF is_leap(y) THEN 29 ELSE 28)
    ELSE IF m \in {4, 6, 9, 11} THEN 30 ELSE 31

RECURSIVE days_before_month(_, _)
days_before_month(y, m) ==
    IF m = 1 THEN 0 ELSE days_before_month(y, m - 1) + days_in_month(y, m - 1)

toordinal(dt) ==
    LET y == dt.year - 1
    IN y * 365 + (y \div 4) - (y \div 100) + (y \div 400)
       + days_before_month(dt.year, dt.month) + dt.day

\* datetime.timestamp() of a naive datetime, the local zone being UTC: whole
\* days since 1970-01-01 and the second of the day (days * 86400 + secs).
timestamp(dt) ==
    [days |-> toordinal(dt) - 719163,
     secs |-> dt.hour * 3600 + dt.minute * 60 + dt.second]

CharAt(s, i) == IF i >= 1 /\ i <= Len(s) THEN s[i] ELSE "<end>"
InRange(c, lo, hi) == IsDigit(c) /\ DigitVal(c) >= lo /\ DigitVal(c) <= hi

RECURSIVE space_run(_, _)
space_run(s, pos) ==
    IF IsSpace(CharAt(s, pos)) THEN 1 + space_run(s, pos + 1) ELSE 0

\* The lengths a directive can match at pos, in the order the alternatives of
\* its regular expression are tried.
directive_lengths(tok, s, pos) ==
    LET a == CharAt(s, pos)
        b == CharAt(s, pos + 1)
        one(cond) == IF cond THEN <<1>> ELSE <<>>
        two(cond) == IF cond THEN <<2>> ELSE <<>>
    IN CASE tok = "%Y" ->
              IF \A k \in 0..3 : IsDigit(CharAt(s, pos + k)) THEN <<4>> ELSE <<>>
         [] tok = "%m" ->
              two((a = "1" /\ InRange(b, 0, 2)) \/ (a = "0" /\ InRange(b, 1, 9)))
              \o one(InRange(a, 1, 9))
         [] tok = "%d" ->
              two((a = "3" /\ InRange(b, 0, 1)) \/ (InRange(a, 1, 2) /\ IsDigit(b))
                  \/ (a = "0" /\ InRange(b, 1, 9)))
              \o one(InRange(a, 1, 9))
              \o two(a = " " /\ InRange(b, 1, 9))
         [] tok = "%H" ->
              two((a = "2" /\ InRange(b, 0, 3)) \/ (InRange(a, 0, 1) /\ IsDigit(b)))
              \o one(IsDigit(a))
         [] tok = "%M" ->
              two(InRange(a, 0, 5) /\ IsDigit(b)) \o one(IsDigit(a))
         [] tok = "%S" ->
              two((a = "6" /\ InRange(b, 0, 1)) \/ (InRange(a, 0, 5) /\ IsDigit(b)))
              \o one(IsDigit(a))
         [] tok = " " ->
              LET n == space_run(s, pos) IN [i \in 1..n |-> n + 1 - i]
         [] OTHER -> one(a = tok)

\* re.match of the format's regular expression: the first way, in backtracking
\* order, to match every token from pos on.  <<-1>> when there is none, else
\* the length each token matched.
\* The element of a one-element set.
The(S) == CHOOSE x \in S : TRUE

RECURSIVE match_from(_, _, _, _)
RECURSIVE try_lengths(_, _, _, _, _, _)
match_from(fmt, k, s, pos) ==
    IF k > Len(fmt) THEN <<>>
    ELSE try_lengths(fmt, k, s, pos, directive_lengths(fmt[k], s, pos), 1)

try_lengths(fmt, k, s, pos, lens, i) ==
    IF i > Len(lens) THEN <<-1>>
    ELSE The({IF rest = <<-1>>
              THEN try_lengths(fmt, k, s, pos, lens, i + 1)
              ELSE <<lens[i]>> \o rest :
                rest \in {match_from(fmt, k + 1, s, pos + lens[i])}})

RECURSIVE sum_to(_, _)
sum_to(lens, k) == IF k = 0 THEN 0 ELSE lens[k] + sum_to(lens, k - 1)

\* datetime.strptime(s, fmt): [ok |-> FALSE] stands for ValueError.
field(s, fmt, lens, tok) ==
    LET k == CHOOSE k \in 1..Len(fmt) : fmt[k] = tok
        from == 1 + sum_to(lens, k - 1)
    IN to_int(strip(SubSeq(s, from, from + lens[k] - 1)))

valid_datetime(dt) ==
    /\ dt.year >= 1
    /\ dt.day <= days_in_month(dt.year, dt.month)
    /\ dt.second <= 59

strptime(s, fmt) ==
    The({IF lens = <<-1>> \/ sum_to(lens, Len(lens)) # Len(s)
         THEN [ok |-> FALSE]
         ELSE The({IF valid_datetime(dt) THEN [ok |-> TRUE, dt |-> dt]
                   ELSE [ok |-> FALSE] :
                     dt \in {[year |-> field(s, fmt, lens, "%Y"),
                              month |-> field(s, fmt, lens, "%m"),
                              day |-> field(s, fmt, lens, "%d"),
                              hour |-> field(s, fmt, lens, "%H"),
                              minute |-> field(s, fmt, lens, "%M"),
                              second |-> field(s, fmt, lens, "%S")]}}) :
           lens \in {match_from(fmt, 1, s, 1)}})

\* datetime.strftime(fmt).  The C library decides whether %Y pads a year
\* below 1000 with zeros (pad_year); all other fields are two digits wide.
RECURSIVE strftime(_, _, _)
strftime(dt, fmt, pad_year) ==
    IF fmt = <<>> THEN <<>>
    ELSE LET tok == Head(fmt)
             out == CASE tok = "%Y" ->
                           IF pad_year THEN zero_pad(to_str(dt.year), 4)
                           ELSE to_str(dt.year)
                      [] tok = "%m" -> zero_pad(to_str(dt.month), 2)
                      [] tok = "%d" -> zero_pad(to_str(dt.day), 2)
                      [] tok = "%H" -> zero_pad(to_str(dt.hour), 2)
                      [] tok = "%M" -> zero_pad(to_str(dt.minute), 2)
                      [] tok = "%S" -> zero_pad(to_str(dt.second), 2)
                      [] OTHER -> <<tok>>
         IN out \o strftime(dt, Tail(fmt), pad_year)

\* format_date(date_str): [ok |-> FALSE] stands for None.
format_date(date_str, pad_year) ==
    The({IF ~parsed.ok THEN [ok |-> FALSE]
         ELSE [ok |-> TRUE,
               year |-> strftime(parsed.dt, FMT_YEAR, pad_year),
               month |-> strftime(parsed.dt, FMT_MONTH, pad_year),
               formatted_date |-> strftime(parsed.dt, FMT_TOUCH, pad_year),
               timestamp |-> strftime(parsed.dt, FMT_STAMP, pad_year)] :
           parsed \in {strptime(date_str, FMT_EXIF)}})

(***************************************************************************)
(* Paths (pathlib) and the names generate_unique_filename builds.          *)
(***************************************************************************)
SRC == <<"s", "r", "c">>
OUT == <<"o", "u", "t">>
SUB == <<"s", "u", "b">>
NAME_A == <<"a", ".", "j", "p", "g">>
NAME_B == <<"b", ".", "J", "P", "G">>
NAME_C == <<"c", ".", "j", "p", "e", "g">>
NAME_N == <<"n", ".", "t", "x", "t">>
EXT_JPG == <<".", "j", "p", "g">>
EXT_JPEG == <<".", "j", "p", "e", "g">>
EXT_PNG == <<".", "p", "n", "g">>

source_dir == <<SRC>>
dest_dir == <<OUT>>

name_of(path) == path[Len(path)]
parent(path) == SubSeq(path, 1, Len(path) - 1)

\* PurePath.suffix: from the last dot on, unless the name starts or ends there.
suffix(name) ==
    LET dots == {i \in 1..Len(name) : name[i] = "."}
    IN IF dots = {} THEN <<>>
       ELSE LET i == CHOOSE i \in dots : \A j \in dots : j <= i
            IN IF i > 1 /\ i < Len(name) THEN SubSeq(name, i, Len(name)) ELSE <<>>

plain_name(base_name, e) == base_name \o <<".">> \o e
numbered_name(base_name, n, e) == base_name \o <<"_">> \o to_str(n) \o <<".">> \o e

is_image_name(file) ==
    LET l == lower(file)
    IN endswith(l, EXT_JPG) \/ endswith(l, EXT_JPEG) \/ endswith(l, EXT_PNG)

(***************************************************************************)
(* File contents.  A content is named; its EXIF block is what Pillow       *)
(* reads from those bytes, its checksum identifies it.                     *)
(***************************************************************************)
DATE_STRICT == <<"2", "0", "2", "3", ":", "0", "5", ":", "1", "4", " ", "1", "0", ":", "3", "0", ":", "0", "0">>
DATE_LENIENT == <<"2", "0", "2", "3", ":", "5", ":", "1", "4", "\t", "1", "0", ":", "3", "0", ":", "0">>
DATE_OTHER == <<"2", "0", "2", "4", ":", "1", "2", ":", "3", "1", " ", "2", "3", ":", "5", "9", ":", "5", "9">>
DATE_FEB30 == <<"2", "0", "2", "3", ":", "0", "2", ":", "3", "0", " ", "1", "0", ":", "3", "0", ":", "0", "0">>
DATE_TRAIL == <<"2", "0", "2", "3", ":", "0", "5", ":", "1", "4", " ", "1", "0", ":", "3", "0", ":", "0", "0", " ">>
DATE_OLD == <<"0", "9", "9", "9", ":", "0", "1", ":", "0", "1", " ", "0", "0", ":", "0", "0", ":", "0", "0">>

DATE_FIRST == <<"0", "0", "0", "1", ":", "0", "1", ":", "0", "1", " ", "0", "0", ":", "0", "0", ":", "0", "0">>

date_tags == <<36867, 36868, 306>>

NoTags == [t \in {} |-> <<>>]
Tags1(t, v) == [x \in {t} |-> v]
Tags2(t, v, u, w) == [x \in {t, u} |-> IF x = t THEN v ELSE w]

Contents == {"cA", "cB", "cNone", "cErr", "cBad", "cTrail", "cOld", "cFirst"}

\* img._getexif() of a file with this content; readable = FALSE when
\* Image.open or _getexif raises.
ExifOf(c) ==
    CASE c = "cA" -> [readable |-> TRUE, tags |-> Tags2(36867, DATE_STRICT, 306, DATE_OTHER)]
      [] c = "cB" -> [readable |-> TRUE, tags |-> Tags2(36867, <<>>, 36868, DATE_LENIENT)]
      [] c = "cNone" -> [readable |-> TRUE, tags |-> NoTags]
      [] c = "cBad" -> [readable |-> TRUE, tags |-> Tags1(306, DATE_FEB30)]
      [] c = "cTrail" -> [readable |-> TRUE, tags |-> Tags1(36867, DATE_TRAIL)]
      [] c = "cOld" -> [readable |-> TRUE, tags |-> Tags1(36868, DATE_OLD)]
      [] c = "cFirst" -> [readable |-> TRUE, tags |-> Tags1(306, DATE_FIRST)]
      [] OTHER -> [readable |-> FALSE, tags |-> NoTags]

\* get_exif_date: <<>> stands for None (and for an empty string, which the
\* caller treats alike).
get_exif_date(content) ==
    LET exif_data == ExifOf(content)
        found == {i \in 1..Len(date_tags) :
                    /\ date_tags[i] \in DOMAIN exif_data.tags
                    /\ exif_data.tags[date_tags[i]] # <<>>}
    IN IF ~exif_data.readable \/ DOMAIN exif_data.tags = {} \/ found = {}
       THEN <<>>
       ELSE exif_data.tags[date_tags[CHOOSE i \in found : \A j \in found : i <= j]]

\* A slip in files_are_identical: the checksum of the first file is compared
\* with itself.
files_are_identical_self(content1, content2) ==
    <<"md5", content1>> = <<"md5", content1>>

get_checksum(content) == <<"md5", content>>
files_are_identical(content1, content2) == get_checksum(content1) = get_checksum(content2)

(***************************************************************************)
(* The filesystem.                                                         *)
(***************************************************************************)
NoTime == [days |-> 0, secs |-> 0]
OLD_MTIME == [days |-> 20000, secs |-> 0]
NOW == [days |-> 20758, secs |-> 8040]

Dir == [kind |-> "dir", content |-> "", mtime |-> NoTime]
File(c, t) == [kind |-> "file", content |-> c, mtime |-> t]

EmptyFs == [p \in {} |-> Dir]
Merge(f, g) == [p \in DOMAIN f \cup DOMAIN g |-> IF p \in DOMAIN f THEN f[p] ELSE g[p]]
Put(f, p, e) == [q \in DOMAIN f \cup {p} |-> IF q = p THEN e ELSE f[q]]
Remove(f, p) == [q \in DOMAIN f \ {p} |-> f[q]]

exists(f, p) == p \in DOMAIN f
is_dir(f, p) == p \in DOMAIN f /\ f[p].kind = "dir"
is_file(f, p) == p \in DOMAIN f /\ f[p].kind = "file"

Prefixes(path) == {SubSeq(path, 1, n) : n \in 1..Len(path)}

\* Path.mkdir(parents=True, exist_ok=True) fails when a component is a file.
mkdir_blocked(f, path) == \E q \in Prefixes(path) : is_file(f, q)
mkdir_parents(f, path) ==
    [q \in DOMAIN f \cup Prefixes(path) |-> IF q \in DOMAIN f THEN f[q] ELSE Dir]

Orderings(S) ==
    {s \in [1..Cardinality(S) -> S] : \A i, j \in 1..Cardinality(S) : s[i] = s[j] => i = j}

(***************************************************************************)
(* Bounds of the model and the trees a run starts from.                    *)
(***************************************************************************)
MaxSrcFiles == 2
MaxPreSuffix == 2
MaxPreFiles == 2

SrcSlots == {<<SRC, NAME_A>>, <<SRC, NAME_B>>, <<SRC, SUB, NAME_C>>, <<SRC, NAME_N>>}

\* The contents a run may find at each source path: any kind of date when
\* the destination holds no photo yet, the two contents of one capture date
\* when it does.
SlotContents ==
    [p \in SrcSlots |->
        CASE p = <<SRC, NAME_A>> -> Contents
          [] p = <<SRC, NAME_B>> -> {"cA", "cB", "cNone"}
          [] p = <<SRC, SUB, NAME_C>> -> {"cA", "cOld"}
          [] OTHER -> {"cA"}]

DatedContents ==
    [p \in SrcSlots |-> IF p = <<SRC, NAME_N>> THEN {} ELSE {"cA", "cB"}]

SrcTrees(allowed) ==
    UNION {{[p \in S |-> File(c[p], OLD_MTIME)] :
              c \in {c \in [S -> Contents] : \A p \in S : c[p] \in allowed[p]}} :
             S \in {S \in SUBSET SrcSlots : Cardinality(S) <= MaxSrcFiles}}

SrcSkeleton == [p \in {source_dir, <<SRC, SUB>>} |-> Dir]

PreInfo == format_date(DATE_STRICT, TRUE)
PreDir == <<OUT, PreInfo.year, PreInfo.year \o <<"-">> \o PreInfo.month>>
PreExt == <<"j", "p", "g">>
PrePath(k) ==
    PreDir \o <<IF k = 0 THEN plain_name(PreInfo.timestamp, PreExt)
                ELSE numbered_name(PreInfo.timestamp, k, PreExt)>>
PreEntries == {File("cA", OLD_MTIME), File("cB", OLD_MTIME), Dir}

BareDestTrees ==
    {EmptyFs,
     [p \in {dest_dir, <<OUT, PreInfo.year>>} |->
        IF p = dest_dir THEN Dir ELSE File("cNone", OLD_MTIME)]}

PopulatedDestTrees ==
    UNION {{Merge([p \in Prefixes(PreDir) |-> Dir],
                       [p \in {PrePath(k) : k \in K} |-> e[CHOOSE k \in K : PrePath(k) = p]]) :
                   e \in [K -> PreEntries]} :
                 K \in {K \in SUBSET (0..MaxPreSuffix) :
                          K # {} /\ Cardinality(K) <= MaxPreFiles}}

InitialTrees ==
    {Merge(Merge(SrcSkeleton, s), d) : s \in SrcTrees(SlotContents), d \in BareDestTrees}
    \cup {Merge(Merge(SrcSkeleton, s), d) :
            s \in SrcTrees(DatedContents), d \in PopulatedDestTrees}

\* Trees for the runs that exercise the command line: the source path may be
\* a regular file or missing.
SmallTrees ==
    {EmptyFs, [p \in {source_dir} |-> File("cNone", OLD_MTIME)]}
    \cup {Merge(SrcSkeleton, s) :
            s \in {s \in SrcTrees(SlotContents) : Cardinality(DOMAIN s) <= 1}}

ConfirmInputs ==
    {<<"y">>, <<"Y">>, <<" ", "y", " ">>, <<"n">>, <<"y", "e", "s">>, <<>>}

(***************************************************************************)
(* State.                                                                  *)
(***************************************************************************)
VARIABLES
    fs,           \* the filesystem: path -> entry
    argv_len,     \* len(sys.argv)
    stdin,        \* what input() finds: [eof |-> BOOLEAN, text |-> line]
    pc,           \* where the program is
    exit_code,    \* the process's exit code, -1 while it runs
    walk_stack,   \* os.walk: the directories still to be listed, next first
    listing,      \* os.walk: the files of the current directory still to come
    file_path,    \* process_file: the file of the current (or last) call
    date_info,    \* process_file: the result of format_date
    dest_subdir,  \* process_file: <dest>/<year>/<year>-<month>
    ext,          \* process_file: the extension of the destination name
    counter,      \* generate_unique_filename: the next suffix
    dest_path,    \* generate_unique_filename: the candidate path
    tried,        \* history: the candidates the current call has tested
    results,      \* history: the messages printed per file, and the destination
    pre_fs,       \* history: the filesystem when the current call began
    fs0           \* history: the filesystem when the program started

vars == <<fs, argv_len, stdin, pc, exit_code, walk_stack, listing, file_path,
          date_info, dest_subdir, ext, counter, dest_path, tried, results,
          pre_fs, fs0>>

walk_vars == <<walk_stack, listing>>
call_vars == <<file_path, date_info, dest_subdir, ext, counter, dest_path, tried>>
env_vars == <<argv_len, stdin, fs0>>

NoInfo == [ok |-> FALSE]
NoResults == [p \in {} |-> [msg |-> "", dest |-> <<>>]]
Report(p, m, d) == Put(results, p, [msg |-> m, dest |-> d])

Init ==
    /\ \/ /\ fs \in InitialTrees
          /\ argv_len = 3
          /\ stdin = [eof |-> FALSE, text |-> <<"y">>]
       \/ /\ fs \in SmallTrees
          /\ argv_len \in 1..3
          /\ stdin \in [eof : {FALSE}, text : ConfirmInputs]
                       \cup {[eof |-> TRUE, text |-> <<>>]}
    /\ pc = "main"
    /\ exit_code = -1
    /\ walk_stack = <<>>
    /\ listing = <<>>
    /\ file_path = <<>>
    /\ date_info = NoInfo
    /\ dest_subdir = <<>>
    /\ ext = <<>>
    /\ counter = 0
    /\ dest_path = <<>>
    /\ tried = <<>>
    /\ results = NoResults
    /\ pre_fs = fs
    /\ fs0 = fs

\* sys.exit(code), or the interpreter ending on an uncaught exception.
Exit(where, code) ==
    /\ pc' = where
    /\ exit_code' = code

\* process_file returns to the loop of traverse_directory.
Return ==
    /\ pc' = "walk"
    /\ date_info' = NoInfo
    /\ dest_subdir' = <<>>
    /\ ext' = <<>>
    /\ counter' = 0
    /\ dest_path' = <<>>
    /\ UNCHANGED <<file_path, tried, exit_code>>

(***************************************************************************)
(* main                                                                    *)
(***************************************************************************)
main_check_args ==
    /\ pc = "main"
    /\ IF argv_len < 3 THEN Exit("exit_usage", 1)
       ELSE pc' = "check_source" /\ UNCHANGED exit_code
    /\ UNCHANGED <<fs, walk_vars, call_vars, results, pre_fs, env_vars>>

main_check_source ==
    /\ pc = "check_source"
    /\ IF ~is_dir(fs, source_dir) THEN Exit("exit_source", 1)
       ELSE pc' = "confirm" /\ UNCHANGED exit_code
    /\ UNCHANGED <<fs, walk_vars, call_vars, results, pre_fs, env_vars>>

\* A slip in main: the answer is read and never looked at.
main_confirm_unchecked ==
    /\ pc = "confirm"
    /\ IF stdin.eof
       THEN Exit("exit_error", 1) /\ UNCHANGED walk_vars
       ELSE /\ pc' = "walk"
            /\ walk_stack' = <<source_dir>>
            /\ listing' = <<>>
            /\ UNCHANGED exit_code
    /\ UNCHANGED <<fs, call_vars, results, pre_fs, env_vars>>

main_confirm ==
    /\ pc = "confirm"
    /\ IF stdin.eof
       THEN Exit("exit_error", 1) /\ UNCHANGED walk_vars
       ELSE LET confirm == lower(strip(stdin.text))
            IN IF confirm # <<"y">>
               THEN Exit("exit_canceled", 0) /\ UNCHANGED walk_vars
               ELSE /\ pc' = "walk"
                    /\ walk_stack' = <<source_dir>>
                    /\ listing' = <<>>
                    /\ UNCHANGED exit_code
    /\ UNCHANGED <<fs, call_vars, results, pre_fs, env_vars>>

(***************************************************************************)
(* traverse_directory                                                      *)
(***************************************************************************)
\* os.walk lists the next directory: its files in the order the system
\* returns them, its subdirectories to be walked before the pending ones.
traverse_directory_scan ==
    /\ pc = "walk"
    /\ listing = <<>>
    /\ walk_stack # <<>>
    /\ LET root == Head(walk_stack)
           inside == {p \in DOMAIN fs : Len(p) = Len(root) + 1 /\ parent(p) = root}
           files == {p \in inside : fs[p].kind = "file"}
           dirs == {p \in inside : fs[p].kind = "dir"}
       IN \E fo \in Orderings(files), do \in Orderings(dirs) :
            /\ listing' = fo
            /\ walk_stack' = do \o Tail(walk_stack)
    /\ UNCHANGED <<fs, pc, exit_code, call_vars, results, pre_fs, env_vars>>

traverse_directory_file ==
    /\ pc = "walk"
    /\ listing # <<>>
    /\ listing' = Tail(listing)
    /\ IF is_image_name(name_of(Head(listing)))
       THEN /\ pc' = "date"
            /\ file_path' = Head(listing)
            /\ pre_fs' = fs
       ELSE UNCHANGED <<pc, file_path, pre_fs>>
    /\ UNCHANGED <<fs, exit_code, walk_stack, date_info, dest_subdir, ext, counter,
                   dest_path, tried, results, env_vars>>

traverse_directory_end ==
    /\ pc = "walk"
    /\ listing = <<>>
    /\ walk_stack = <<>>
    /\ Exit("exit_done", 0)
    /\ UNCHANGED <<fs, walk_vars, call_vars, results, pre_fs, env_vars>>

(***************************************************************************)
(* process_file and generate_unique_filename                               *)
(***************************************************************************)
\* An exception nothing catches: the traceback is printed and the run ends.
Uncaught ==
    /\ Exit("exit_error", 1)
    /\ UNCHANGED <<walk_vars, call_vars, results, pre_fs, env_vars>>

\* A slip in process_file: the destination root is created before the date
\* is looked at.
process_file_date_mkdir_first ==
    /\ pc = "date"
    /\ ~mkdir_blocked(fs, dest_dir)
    /\ fs' = mkdir_parents(fs, dest_dir)
    /\ LET exif_date == get_exif_date(fs[file_path].content)
       IN IF exif_date = <<>>
          THEN results' = Report(file_path, "no_date", <<>>) /\ Return
          ELSE \E pad_year \in BOOLEAN :
                 \E info \in {format_date(exif_date, pad_year)} :
                    IF ~info.ok
                    THEN results' = Report(file_path, "invalid_date", <<>>) /\ Return
                    ELSE /\ date_info' = info
                         /\ pc' = "mkdir"
                         /\ UNCHANGED <<results, exit_code, file_path, dest_subdir,
                                        ext, counter, dest_path, tried>>
    /\ UNCHANGED <<walk_vars, pre_fs, env_vars>>

process_file_date ==
    /\ pc = "date"
    /\ LET exif_date == get_exif_date(fs[file_path].content)
       IN IF exif_date = <<>>
          THEN results' = Report(file_path, "no_date", <<>>) /\ Return
          ELSE \E pad_year \in BOOLEAN :
                 \E info \in {format_date(exif_date, pad_year)} :
                    IF ~info.ok
                    THEN results' = Report(file_path, "invalid_date", <<>>) /\ Return
                    ELSE /\ date_info' = info
                         /\ pc' = "mkdir"
                         /\ UNCHANGED <<results, exit_code, file_path, dest_subdir,
                                        ext, counter, dest_path, tried>>
    /\ UNCHANGED <<fs, walk_vars, pre_fs, env_vars>>

process_file_mkdir ==
    /\ pc = "mkdir"
    /\ LET year == date_info.year
           month == date_info.month
           subdir == dest_dir \o <<year, year \o <<"-">> \o month>>
       IN IF mkdir_blocked(fs, subdir)
          THEN Uncaught /\ UNCHANGED fs
          ELSE /\ fs' = mkdir_parents(fs, subdir)
               /\ dest_subdir' = subdir
               /\ pc' = "utime"
               /\ UNCHANGED <<exit_code, walk_vars, file_path, date_info, ext, counter,
                              dest_path, tried, results, pre_fs, env_vars>>

\* mkdir fails for a reason the model does not hold (permissions, a full
\* disk), after creating some of the missing ancestors.
process_file_mkdir_error ==
    /\ pc = "mkdir"
    /\ LET year == date_info.year
           subdir == dest_dir \o <<year, year \o <<"-">> \o date_info.month>>
       IN \E n \in 0..(Len(subdir) - 1) :
            /\ ~mkdir_blocked(fs, SubSeq(subdir, 1, n))
            /\ fs' = mkdir_parents(fs, SubSeq(subdir, 1, n))
    /\ Uncaught

process_file_utime ==
    /\ pc = "utime"
    /\ \E parsed \in {strptime(date_info.formatted_date, FMT_TOUCH)} :
          IF ~parsed.ok
          THEN Uncaught /\ UNCHANGED fs
          ELSE /\ fs' = Put(fs, file_path,
                            [fs[file_path] EXCEPT !.mtime = timestamp(parsed.dt)])
               /\ pc' = "name"
               /\ UNCHANGED <<exit_code, walk_vars, call_vars, results, pre_fs, env_vars>>

process_file_utime_error ==
    /\ pc = "utime"
    /\ UNCHANGED fs
    /\ Uncaught

\* The arguments of generate_unique_filename and its first candidate.
process_file_name ==
    /\ pc = "name"
    /\ LET e == lstrip_dot(lower(suffix(name_of(file_path))))
       IN /\ ext' = e
          /\ dest_path' = dest_subdir \o <<plain_name(date_info.timestamp, e)>>
    /\ counter' = 1
    /\ tried' = <<>>
    /\ pc' = "probe"
    /\ UNCHANGED <<fs, exit_code, walk_vars, file_path, date_info, dest_subdir,
                   results, pre_fs, env_vars>>

\* A slip in generate_unique_filename: an existing file that differs from
\* the source does not start the probing, its path is returned.
generate_unique_filename_no_probe ==
    /\ pc = "probe"
    /\ tried' = Append(tried, dest_path)
    /\ IF /\ is_file(fs, dest_path)
          /\ files_are_identical(fs[dest_path].content, fs[file_path].content)
       THEN /\ results' = Report(file_path, "duplicate", dest_path)
            /\ pc' = "walk"
            /\ date_info' = NoInfo
            /\ dest_subdir' = <<>>
            /\ ext' = <<>>
            /\ counter' = 0
            /\ dest_path' = <<>>
       ELSE /\ pc' = "copy"
            /\ UNCHANGED <<date_info, dest_subdir, ext, counter, dest_path, results>>
    /\ UNCHANGED <<fs, exit_code, walk_vars, file_path, pre_fs, env_vars>>

\* A slip in generate_unique_filename: the counter is never raised.
generate_unique_filename_stuck ==
    /\ pc = "probe"
    /\ tried' = Append(tried, dest_path)
    /\ IF exists(fs, dest_path)
       THEN IF /\ is_file(fs, dest_path)
               /\ files_are_identical(fs[dest_path].content, fs[file_path].content)
            THEN /\ results' = Report(file_path, "duplicate", dest_path)
                 /\ pc' = "walk"
                 /\ date_info' = NoInfo
                 /\ dest_subdir' = <<>>
                 /\ ext' = <<>>
                 /\ counter' = 0
                 /\ dest_path' = <<>>
            ELSE /\ dest_path' = dest_subdir
                                  \o <<numbered_name(date_info.timestamp, counter, ext)>>
                 /\ UNCHANGED <<pc, date_info, dest_subdir, ext, counter, results>>
       ELSE /\ pc' = "copy"
            /\ UNCHANGED <<date_info, dest_subdir, ext, counter, dest_path, results>>
    /\ UNCHANGED <<fs, exit_code, walk_vars, file_path, pre_fs, env_vars>>

\* One test of the while condition, and the body or the return after it.
generate_unique_filename_loop ==
    /\ pc = "probe"
    /\ tried' = Append(tried, dest_path)
    /\ IF exists(fs, dest_path)
       THEN IF /\ is_file(fs, dest_path)
               /\ files_are_identical(fs[dest_path].content, fs[file_path].content)
            THEN /\ results' = Report(file_path, "duplicate", dest_path)
                 /\ pc' = "walk"
                 /\ date_info' = NoInfo
                 /\ dest_subdir' = <<>>
                 /\ ext' = <<>>
                 /\ counter' = 0
                 /\ dest_path' = <<>>
            ELSE /\ dest_path' = dest_subdir
                                  \o <<numbered_name(date_info.timestamp, counter, ext)>>
                 /\ counter' = counter + 1
                 /\ UNCHANGED <<pc, date_info, dest_subdir, ext, results>>
       ELSE /\ pc' = "copy"
            /\ UNCHANGED <<date_info, dest_subdir, ext, counter, dest_path, results>>
    /\ UNCHANGED <<fs, exit_code, walk_vars, file_path, pre_fs, env_vars>>

\* get_checksum cannot read one of the two files.
generate_unique_filename_error ==
    /\ pc = "probe"
    /\ is_file(fs, dest_path)
    /\ UNCHANGED fs
    /\ Uncaught

\* A slip in process_file: a copy that wrote nothing is taken for a success.
process_file_copy_unwritten ==
    /\ pc = "copy"
    /\ UNCHANGED fs
    /\ results' = Report(file_path, "copied", dest_path)
    /\ pc' = "remove"
    /\ UNCHANGED <<exit_code, walk_vars, call_vars, pre_fs, env_vars>>

process_file_copy ==
    /\ pc = "copy"
    /\ fs' = Put(fs, dest_path, File(fs[file_path].content, fs[file_path].mtime))
    /\ results' = Report(file_path, "copied", dest_path)
    /\ pc' = "remove"
    /\ UNCHANGED <<exit_code, walk_vars, call_vars, pre_fs, env_vars>>

\* shutil.copy2 fails: before it opens the destination, while it writes, or
\* in copystat after all bytes are written.
process_file_copy_error ==
    /\ pc = "copy"
    /\ \/ UNCHANGED fs
       \/ fs' = Put(fs, dest_path, File("partial", NOW))
       \/ fs' = Put(fs, dest_path, File(fs[file_path].content, NOW))
    /\ Uncaught

process_file_remove ==
    /\ pc = "remove"
    /\ fs' = Remove(fs, file_path)
    /\ results' = Report(file_path, "removed", dest_path)
    /\ Return
    /\ UNCHANGED <<walk_vars, pre_fs, env_vars>>

process_file_remove_error ==
    /\ pc = "remove"
    /\ UNCHANGED fs
    /\ Uncaught

Next ==
    \/ main_check_args
    \/ main_check_source
    \/ main_confirm
    \/ traverse_directory_scan
    \/ traverse_directory_file
    \/ traverse_directory_end
    \/ process_file_date
    \/ process_file_mkdir
    \/ process_file_mkdir_error
    \/ process_file_utime
    \/ process_file_utime_error
    \/ process_file_name
    \/ generate_unique_filename_loop
    \/ generate_unique_filename_error
    \/ process_file_copy
    \/ process_file_copy_error
    \/ process_file_remove
    \/ process_file_remove_error

Spec == Init /\ [][Next]_vars

\* The same program under the scheduling the interpreter gives the loop of
\* generate_unique_filename: an iteration that can run does run.  Nothing is
\* assumed of the I/O errors.  Its runs start from one source file at most.
LiveInit ==
    /\ Init
    /\ Cardinality({p \in DOMAIN fs : Len(p) > 1 /\ p[1] = SRC /\ is_file(fs, p)}) <= 1

LiveSpec == LiveInit /\ [][Next]_vars /\ WF_vars(generate_unique_filename_loop)

(***************************************************************************)
(* What the properties speak of.                                           *)
(***************************************************************************)
InSource(p) == Len(p) > 1 /\ p[1] = SRC
InDest(p) == Len(p) >= 1 /\ p[1] = OUT

\* The files, and the eligible files, the source tree held when the program
\* started.
SourceFiles == {p \in DOMAIN fs0 : InSource(p) /\ is_file(fs0, p)}
SourceImages == {p \in DOMAIN fs0 : InSource(p) /\ is_file(fs0, p) /\ is_image_name(name_of(p))}

DestFiles(f) == {q \in DOMAIN f : InDest(q) /\ is_file(f, q)}

\* The capture date of a content, as the specification words it: parsed from
\* the first date tag present, and written with a four-digit year.
CaptureDates == [c \in Contents |-> strptime(get_exif_date(c), FMT_EXIF)]
Parsed(c) == CaptureDates[c]
HasValidDate(c) == get_exif_date(c) # <<>> /\ Parsed(c).ok
SpecYear(c) == strftime(Parsed(c).dt, FMT_YEAR, TRUE)
SpecDir(c) == <<OUT, SpecYear(c), SpecYear(c) \o <<"-">> \o strftime(Parsed(c).dt, FMT_MONTH, TRUE)>>
SpecBase(c) == strftime(Parsed(c).dt, FMT_STAMP, TRUE)
SpecExt(p) == lstrip_dot(lower(suffix(name_of(p))))

MaxSuffix == MaxPreSuffix + MaxSrcFiles + 1
Family(base_name, e) ==
    {plain_name(base_name, e)} \cup {numbered_name(base_name, n, e) : n \in 1..MaxSuffix}

Said(p, m) == p \in DOMAIN results /\ results[p].msg = m

\* process_file has returned from its call on file_path.
Returned == file_path # <<>> /\ pc \in {"walk", "exit_done"}

\* traverse_directory has been called.
Traversed ==
    \/ pc \in {"walk", "date", "mkdir", "utime", "name", "probe", "copy", "remove", "exit_done"}
    \/ pc = "exit_error" /\ file_path # <<>>

(***************************************************************************)
(* C1: a source file is gone only if its copy is complete at the           *)
(* destination: whenever a file of the source tree no longer exists, the   *)
(* program has reported its removal, and the destination path it was       *)
(* copied to holds a file with the source's original content.              *)
(***************************************************************************)
C1_RemovedOnlyAfterCopy ==
    \A p \in SourceFiles :
        ~exists(fs, p) =>
            /\ Said(p, "removed")
            /\ InDest(results[p].dest)
            /\ is_file(fs, results[p].dest)
            /\ fs[results[p].dest].content = fs0[p].content

C1_Witness == \E p \in SourceImages : ~exists(fs, p) /\ Said(p, "removed")

(***************************************************************************)
(* C2: every file reported placed lies at                                  *)
(* <dest>/<YYYY>/<YYYY>-<MM>/<YYYYMMDD_HHMMSS>[_n].<ext>, holds the        *)
(* source's original content, carries the capture date as its              *)
(* modification time, and its source path no longer exists.                *)
(***************************************************************************)
C2_PlacedAsSpecified ==
    \A p \in SourceImages :
        Said(p, "removed") =>
            LET c == fs0[p].content
                d == results[p].dest
            IN /\ HasValidDate(c)
               /\ parent(d) = SpecDir(c)
               /\ name_of(d) \in Family(SpecBase(c), SpecExt(p))
               /\ is_file(fs, d)
               /\ fs[d].content = c
               /\ fs[d].mtime = timestamp(Parsed(c).dt)
               /\ ~exists(fs, p)

(***************************************************************************)
(* C3: placement never overwrites: every file the destination tree held    *)
(* when the program started, and when the current call of process_file     *)
(* began, is still at its path with its content, and the path              *)
(* generate_unique_filename returns is one at which nothing exists.        *)
(***************************************************************************)
C3_NeverOverwrites ==
    /\ \A q \in DestFiles(fs0) : is_file(fs, q) /\ fs[q].content = fs0[q].content
    /\ \A q \in DestFiles(pre_fs) : is_file(fs, q) /\ fs[q].content = pre_fs[q].content
    /\ pc = "copy" => ~exists(fs, dest_path)

C3_Witness ==
    \E p \in SourceImages :
        /\ Said(p, "removed")
        /\ \E q \in DestFiles(fs0) :
              /\ parent(q) = parent(results[p].dest)
              /\ fs0[q].content # fs0[p].content
              /\ q = parent(q) \o <<plain_name(SpecBase(fs0[p].content), SpecExt(p))>>

(***************************************************************************)
(* C4: once the source has been copied to the path                         *)
(* generate_unique_filename returned, no other file of that directory has  *)
(* the source's content.                                                   *)
(***************************************************************************)
C4_NoTwinInDirectory ==
    pc = "remove" =>
        \A q \in DestFiles(fs) :
            (q # dest_path /\ parent(q) = dest_subdir)
                => fs[q].content # fs[file_path].content

(***************************************************************************)
(* C5: when the destination directory of a file's capture date already     *)
(* holds, under that date's name, a file with the same content,            *)
(* process_file reports a duplicate, leaves the destination files as they  *)
(* were and leaves the source in place.                                    *)
(***************************************************************************)
HeldAlready(p) ==
    LET c == pre_fs[p].content
    IN \E q \in DestFiles(pre_fs) :
          /\ parent(q) = SpecDir(c)
          /\ Len(name_of(q)) >= Len(SpecBase(c))
          /\ SubSeq(name_of(q), 1, Len(SpecBase(c))) = SpecBase(c)
          /\ pre_fs[q].content = c

\* C5: with such a file held already, the call ends in a duplicate-skip and
\* changes no destination file.
C5_RerunSkipsDuplicate ==
    (/\ Returned
     /\ HasValidDate(pre_fs[file_path].content)
     /\ HeldAlready(file_path))
        => /\ Said(file_path, "duplicate")
           /\ exists(fs, file_path)
           /\ DestFiles(fs) = DestFiles(pre_fs)
           /\ \A q \in DestFiles(fs) : fs[q] = pre_fs[q]

(***************************************************************************)
(* C6: two source files of different content whose capture dates give the  *)
(* same base name, both processed, are both in the destination, each with  *)
(* its own content, under names that differ by a numeric suffix only.      *)
(* As claimed (C6_AnyExtension) this covers files of different extensions; *)
(* it holds (C6_SameExtension) for files of the same lowercase extension.  *)
(***************************************************************************)
Processed(p) == Said(p, "removed") \/ Said(p, "duplicate")

SameBase(p1, p2) ==
    /\ p1 # p2
    /\ fs0[p1].content # fs0[p2].content
    /\ HasValidDate(fs0[p1].content)
    /\ HasValidDate(fs0[p2].content)
    /\ SpecBase(fs0[p1].content) = SpecBase(fs0[p2].content)

BothKept(p1, p2) ==
    \E d1, d2 \in DestFiles(fs) :
        /\ d1 # d2
        /\ fs[d1].content = fs0[p1].content
        /\ fs[d2].content = fs0[p2].content
        /\ parent(d1) = parent(d2)
        /\ \E e \in {SpecExt(p1), SpecExt(p2)} :
              /\ name_of(d1) \in Family(SpecBase(fs0[p1].content), e)
              /\ name_of(d2) \in Family(SpecBase(fs0[p1].content), e)

\* C6 as claimed: any two processed files of one base name are both kept,
\* under names that differ by a numeric suffix only.
C6_AnyExtension ==
    \A p1, p2 \in SourceImages :
        (Processed(p1) /\ Processed(p2) /\ SameBase(p1, p2)) => BothKept(p1, p2)

\* C6 as amended: the same for two files of the same lowercase extension.
C6_SameExtension ==
    \A p1, p2 \in SourceImages :
        (/\ Processed(p1)
         /\ Processed(p2)
         /\ SameBase(p1, p2)
         /\ SpecExt(p1) = SpecExt(p2)) => BothKept(p1, p2)

C6_Witness ==
    \E p1, p2 \in SourceImages :
        /\ SameBase(p1, p2)
        /\ SpecExt(p1) = SpecExt(p2)
        /\ Said(p1, "removed")
        /\ Said(p2, "removed")
        /\ name_of(results[p1].dest) # name_of(results[p2].dest)

(***************************************************************************)
(* C7: an I/O error while one file is processed does not end the run: when *)
(* the run has ended, every eligible file of the walk has been processed.  *)
(***************************************************************************)
C7_ErrorsDoNotEndTheRun ==
    (pc = "exit_error" /\ file_path # <<>>) =>
        /\ listing = <<>>
        /\ walk_stack = <<>>
        /\ \A p \in SourceImages : p = file_path \/ p \in DOMAIN results

(***************************************************************************)
(* C8: a file without a usable date is left alone: during and after its    *)
(* call of process_file the filesystem is what it was when the call began. *)
(* As claimed (C8_ExactPattern) every string that is not exactly           *)
(* YYYY:MM:DD HH:MM:SS counts as unusable; it holds (C8_RejectedDate) for  *)
(* the strings strptime rejects, and those alone are reported as skipped.  *)
(***************************************************************************)
ExactPattern(s) ==
    /\ Len(s) = 19
    /\ \A i \in 1..19 :
          IF i \in {5, 8, 14, 17} THEN s[i] = ":"
          ELSE IF i = 11 THEN s[i] = " "
          ELSE IsDigit(s[i])

\* What strptime accepts for "%Y:%m:%d %H:%M:%S", said without its matcher: a
\* four-digit year, then month, day, hour, minute and second of one or two
\* digits (the day also as a blank and a digit), colons between them and one
\* or more blanks between date and time, naming a date that exists.
Numeral(s, from, n, lo, hi) ==
    /\ \A i \in from..(from + n - 1) : IsDigit(CharAt(s, i))
    /\ to_int(SubSeq(s, from, from + n - 1)) \in lo..hi

DayNumeral(s, from, n, hi) ==
    \/ Numeral(s, from, n, 1, hi)
    \/ n = 2 /\ CharAt(s, from) = " " /\ Numeral(s, from + 1, 1, 1, hi)

Accepted(s) ==
    \E m, d, H, M, S \in 1..2, w \in 1..Len(s) :
        LET at_m == 6
            at_d == at_m + m + 1
            at_w == at_d + d
            at_H == at_w + w
            at_M == at_H + H + 1
            at_S == at_M + M + 1
        IN /\ Len(s) = at_S + S - 1
           /\ Numeral(s, 1, 4, 1, 9999)
           /\ CharAt(s, 5) = ":"
           /\ Numeral(s, at_m, m, 1, 12)
           /\ CharAt(s, at_d - 1) = ":"
           /\ DayNumeral(s, at_d, d,
                         days_in_month(to_int(SubSeq(s, 1, 4)),
                                       to_int(SubSeq(s, at_m, at_m + m - 1))))
           /\ \A i \in at_w..(at_H - 1) : IsSpace(CharAt(s, i))
           /\ Numeral(s, at_H, H, 0, 23)
           /\ CharAt(s, at_M - 1) = ":"
           /\ Numeral(s, at_M, M, 0, 59)
           /\ CharAt(s, at_S - 1) = ":"
           /\ Numeral(s, at_S, S, 0, 59)

AcceptedContents == {c \in Contents : Accepted(get_exif_date(c))}
ExactContents == {c \in Contents : ExactPattern(get_exif_date(c))}

InCall == file_path # <<>> /\ pc \notin {"main", "check_source", "confirm"}

Ended == pc \in {"exit_usage", "exit_source", "exit_canceled", "exit_done", "exit_error"}
UsageError == argv_len < 3 \/ ~is_dir(fs0, source_dir)

Confirmation(answer_is_y) ==
    /\ ~Traversed => fs = fs0
    /\ Traversed => (~UsageError /\ ~stdin.eof /\ answer_is_y)
    /\ (Ended /\ UsageError) => (exit_code = 1 /\ ~Traversed)
    /\ (Ended /\ ~UsageError /\ ~stdin.eof /\ ~answer_is_y)
          => (exit_code = 0 /\ ~Traversed /\ fs = fs0)

\* C9 as claimed: the answer counts as y when its lowercase form is "y".
C9_AnswerIsY == Confirmation(lower(stdin.text) = <<"y">>)

\* C9 as amended: the answer counts as y when, stripped of the blanks around
\* it, its lowercase form is "y".
C9_AnswerStripped == Confirmation(lower(strip(stdin.text)) = <<"y">>)

C9_Witness ==
    /\ pc = "exit_done"
    /\ stdin.text = <<"Y">>
    /\ \E p \in SourceImages : Said(p, "removed")

(***************************************************************************)
(* C10: the loop of generate_unique_filename ends.  Each iteration raises  *)
(* the counter by one, no candidate is tested twice, every candidate       *)
(* before the last exists and is no file identical to the source, the      *)
(* loop ends at the first candidate that is free or identical, and a       *)
(* program in the loop leaves it.                                          *)
(***************************************************************************)
Occupied(q) ==
    /\ exists(fs, q)
    /\ ~(is_file(fs, q) /\ fs[q].content = fs[file_path].content)

ProbedInOrder ==
    /\ \A i, j \in 1..Len(tried) : tried[i] = tried[j] => i = j
    /\ pc = "probe" => \A i \in 1..Len(tried) : Occupied(tried[i])
    /\ pc = "copy" =>
          /\ tried[Len(tried)] = dest_path
          /\ ~exists(fs, dest_path)
          /\ \A i \in 1..(Len(tried) - 1) : Occupied(tried[i])
    /\ (Returned /\ Said(file_path, "duplicate")) =>
          /\ tried[Len(tried)] = results[file_path].dest
          /\ is_file(fs, results[file_path].dest)
          /\ fs[results[file_path].dest].content = fs[file_path].content
          /\ \A i \in 1..(Len(tried) - 1) : Occupied(tried[i])

\* C10: the probing is in order, the counter rises by one per iteration, and
\* the loop is left.
C10_ProbingTerminates ==
    /\ []ProbedInOrder
    /\ [][(pc = "probe" /\ pc' = "probe") => counter' = counter + 1]_vars
    /\ (pc = "probe") ~> (pc # "probe")

C10_Witness == pc = "copy" /\ Len(tried) >= 3 /\ counter >= 3

====
